---- MODULE Spec2Model ----
(***************************************************************************)
(* A model of pvr's pip installer (src/pvr/installer.py): the link          *)
(* extractor, the resolver (find), the URL-keyed download cache (download)  *)
(* and the installer driver (install).                                      *)
(*                                                                          *)
(* The string functions work on sequences of one-character strings, so     *)
(* that basename, endswith, split, urljoin and version parsing are         *)
(* computed, not assumed.                                                  *)
(***************************************************************************)
EXTENDS Integers, Sequences, FiniteSets, TLC

(***************************************************************************)
(* Text helpers                                                             *)
(***************************************************************************)

Digits == {"0", "1", "2", "3", "4", "5", "6", "7", "8", "9"}

DigitVal(c) ==
    CASE c = "0" -> 0 [] c = "1" -> 1 [] c = "2" -> 2 [] c = "3" -> 3
      [] c = "4" -> 4 [] c = "5" -> 5 [] c = "6" -> 6 [] c = "7" -> 7
      [] c = "8" -> 8 [] c = "9" -> 9

\* The lower-case letters, in code-point order ("@" sorts before them all).
Alphabet ==
    << "@", "a", "b", "c", "d", "e", "f", "g", "h", "i", "j", "k", "l", "m",
       "n", "o", "p", "q", "r", "s", "t", "u", "v", "w", "x", "y", "z" >>

Letters == { Alphabet[i] : i \in 2..Len(Alphabet) }

\* ord(c) restricted to "@" and the lower-case letters.
Ord(c) == CHOOSE i \in 1..Len(Alphabet) : Alphabet[i] = c

\* s[i:], 1-based: the suffix of s that starts at position i.
Drop(s, i) == SubSeq(s, i, Len(s))

\* str.endswith
endswith(s, suffix) ==
    /\ Len(suffix) <= Len(s)
    /\ SubSeq(s, Len(s) - Len(suffix) + 1, Len(s)) = suffix

\* The length of the longest prefix of s made of characters of set S.
RECURSIVE Span(_, _)
Span(s, S) ==
    IF s = << >> \/ s[1] \notin S THEN 0 ELSE 1 + Span(Tail(s), S)

\* The position of the first character of s, from position i on, that is
\* in S; Len(s) + 1 if there is none.
RECURSIVE FirstFrom(_, _, _)
FirstFrom(s, S, i) ==
    IF i > Len(s) \/ s[i] \in S THEN i ELSE FirstFrom(s, S, i + 1)

FirstOf(s, S) == FirstFrom(s, S, 1)

\* str.split(sep) for a one-character separator: always at least one piece.
RECURSIVE split(_, _)
RECURSIVE SplitAt(_, _, _)
split(s, sep) == SplitAt(s, sep, FirstOf(s, {sep}))

SplitAt(s, sep, k) ==
    IF k > Len(s) THEN << s >>
    ELSE << SubSeq(s, 1, k - 1) >> \o split(Drop(s, k + 1), sep)

\* int(s) for a string of decimal digits (0 for the empty string).
RECURSIVE ParseNat(_)
ParseNat(s) ==
    IF s = << >> THEN 0
    ELSE 10 * ParseNat(SubSeq(s, 1, Len(s) - 1)) + DigitVal(s[Len(s)])

(***************************************************************************)
(* packaging.version: PEP 440 versions (release segments, a pre-release     *)
(* tag a/b/rc and a post-release number) and the legacy versions that older *)
(* releases of the library return for every other string.                   *)
(***************************************************************************)

PreTags == { << "a" >>, << "b" >>, << "r", "c" >> }
PostTag == << "p", "o", "s", "t" >>

\* _cmpkey's rank of the pre-release letter; no pre-release sorts last.
PreRank(tag) ==
    CASE tag = << "a" >> -> 0
      [] tag = << "b" >> -> 1
      [] tag = << "r", "c" >> -> 2

NoPre == << 3, 0 >>
NoPost == -1

Invalid == [kind |-> "invalid"]

\* One dot-separated piece of a version is digits, then a tag, then digits:
\* "0rc1" is lead "0", tag "rc", number "1".
PieceLead(p) == SubSeq(p, 1, Span(p, Digits))
AfterLead(p) == Drop(p, Span(p, Digits) + 1)
TagOf(r) == SubSeq(r, 1, Span(r, Letters))
NumOf(r) == Drop(r, Span(r, Letters) + 1)

PieceOk(lead, tag, numtext) ==
    /\ lead # << >> \/ tag # << >>
    /\ Span(numtext, Digits) = Len(numtext)
    /\ tag = << >> => numtext = << >>
    /\ tag # << >> => tag \in PreTags \cup { PostTag }

\* The pieces are folded, left to right, into a version record; acc.stage
\* is 0 while release segments may follow, 1 after a pre-release, 2 after a
\* post-release.
RECURSIVE ParsePieces(_, _)
RECURSIVE ParsePiece(_, _, _, _, _)
RECURSIVE AddPiece(_, _, _, _)

ParsePieces(ps, acc) ==
    IF ps = << >> THEN acc
    ELSE ParsePiece(Tail(ps), acc, PieceLead(ps[1]), TagOf(AfterLead(ps[1])),
                    NumOf(AfterLead(ps[1])))

ParsePiece(rest, acc, lead, tag, numtext) ==
    IF ~PieceOk(lead, tag, numtext) THEN Invalid
    ELSE IF lead # << >> /\ acc.stage > 0 THEN Invalid
    ELSE IF lead = << >> /\ acc.release = << >> THEN Invalid
    ELSE AddPiece(rest,
                  IF lead = << >> THEN acc
                  ELSE [acc EXCEPT !.release = Append(@, ParseNat(lead))],
                  tag, ParseNat(numtext))

AddPiece(rest, acc, tag, num) ==
    IF tag = << >> THEN ParsePieces(rest, acc)
    ELSE IF tag = PostTag
    THEN IF acc.stage >= 2 THEN Invalid
         ELSE ParsePieces(rest, [acc EXCEPT !.post = num, !.stage = 2])
    ELSE IF acc.stage >= 1 THEN Invalid
         ELSE ParsePieces(rest, [acc EXCEPT !.pre = << PreRank(tag), num >>,
                                            !.stage = 1])

Parsed(r) ==
    IF r = Invalid THEN Invalid
    ELSE [kind |-> "pep440", release |-> r.release, pre |-> r.pre,
          post |-> r.post]

\* packaging.version.Version(s): the parsed version, or Invalid.
Version(s) ==
    Parsed(ParsePieces(split(s, "."),
                       [kind |-> "pep440", release |-> << >>, pre |-> NoPre,
                        post |-> NoPost, stage |-> 0]))

\* _cmpkey drops the trailing zeros of the release: 1.0 == 1.0.0.
RECURSIVE StripZeros(_)
StripZeros(r) ==
    IF r # << >> /\ r[Len(r)] = 0
    THEN StripZeros(SubSeq(r, 1, Len(r) - 1))
    ELSE r

\* Tuple comparison of two sequences of naturals, as Python compares tuples.
RECURSIVE SeqLess(_, _)
SeqLess(a, b) ==
    IF b = << >> THEN FALSE
    ELSE IF a = << >> THEN TRUE
    ELSE IF a[1] # b[1] THEN a[1] < b[1]
    ELSE SeqLess(Tail(a), Tail(b))

\* Version._key for the fields modelled: (release, pre, post).
KeyLess(rv, rw, v, w) ==
    IF rv # rw THEN SeqLess(rv, rw)
    ELSE IF v.pre # w.pre THEN SeqLess(v.pre, w.pre)
    ELSE v.post < w.post

PepLess(v, w) == KeyLess(StripZeros(v.release), StripZeros(w.release), v, w)

\* LegacyVersion: _parse_version_parts cuts the string into runs of digits
\* and runs of letters (dots are dropped).  A part is << 1, n >> for digits
\* (zero-filled to 8 characters, so compared by value) or << 0, letters >>
\* for "*" + letters; "*" sorts before every digit.
RECURSIVE LegacyRuns(_)
LegacyRuns(s) ==
    IF s = << >> THEN << >>
    ELSE IF s[1] \in Digits
    THEN LET n == Span(s, Digits)
         IN  << << 1, ParseNat(SubSeq(s, 1, n)) >> >> \o LegacyRuns(Drop(s, n + 1))
    ELSE IF s[1] \in Letters
    THEN LET n == Span(s, Letters)
         IN  << << 0, SubSeq(s, 1, n) >> >> \o LegacyRuns(Drop(s, n + 1))
    ELSE LegacyRuns(Tail(s))

\* _legacy_version_replacement_map
LegacyReplace(w) ==
    CASE w = << "p", "r", "e" >> -> << "c" >>
      [] w = << "p", "r", "e", "v", "i", "e", "w" >> -> << "c" >>
      [] w = << "r", "c" >> -> << "c" >>
      [] w = << "d", "e", "v" >> -> << "@" >>
      [] OTHER -> w

Final == << 0, << "f", "i", "n", "a", "l" >> >>

\* _legacy_cmpkey: trailing zero parts are removed before each "*" part.
RECURSIVE LegacyFold(_, _)
LegacyFold(runs, parts) ==
    IF runs = << >> THEN parts
    ELSE LET part == IF runs[1][1] = 0
                     THEN << 0, LegacyReplace(runs[1][2]) >>
                     ELSE runs[1]
             kept == IF part[1] = 0
                     THEN LET Z == { i \in 0..Len(parts) :
                                       \A j \in (i + 1)..Len(parts) :
                                           /\ parts[j][1] = 1
                                           /\ parts[j][2] = 0 }
                              k == CHOOSE i \in Z : \A j \in Z : i <= j
                          IN  SubSeq(parts, 1, k)
                     ELSE parts
         IN  LegacyFold(Tail(runs), Append(kept, part))

LegacyKey(s) == LegacyFold(Append(LegacyRuns(s), Final), << >>)

\* Python's string comparison of two "*" + letters parts.
RECURSIVE WordLess(_, _)
WordLess(a, b) ==
    IF b = << >> THEN FALSE
    ELSE IF a = << >> THEN TRUE
    ELSE IF a[1] # b[1] THEN Ord(a[1]) < Ord(b[1])
    ELSE WordLess(Tail(a), Tail(b))

PartLess(p, q) ==
    IF p[1] # q[1] THEN p[1] < q[1]
    ELSE IF p[1] = 1 THEN p[2] < q[2]
    ELSE WordLess(p[2], q[2])

RECURSIVE LegacyLess(_, _)
LegacyLess(a, b) ==
    IF b = << >> THEN FALSE
    ELSE IF a = << >> THEN TRUE
    ELSE IF a[1] # b[1] THEN PartLess(a[1], b[1])
    ELSE LegacyLess(Tail(a), Tail(b))

\* v < w over both kinds: a legacy version (epoch -1) is below every
\* PEP 440 version.
VersionLess(v, w) ==
    IF v.kind = "legacy" /\ w.kind = "legacy" THEN LegacyLess(v.key, w.key)
    ELSE IF v.kind = "legacy" THEN TRUE
    ELSE IF w.kind = "legacy" THEN FALSE
    ELSE PepLess(v, w)

\* packaging.version.parse(s).  Releases of the library before 22.0 fall
\* back to LegacyVersion for a string that is no PEP 440 version; later
\* ones raise InvalidVersion.  setup.py admits both (packaging>=14.2).
ParsedOrLegacy(v, s, strict) ==
    IF v # Invalid THEN v
    ELSE IF strict THEN Invalid
    ELSE [kind |-> "legacy", key |-> LegacyKey(s)]

parse(s, strict) == ParsedOrLegacy(Version(s), s, strict)

(***************************************************************************)
(* urllib.parse and posixpath, for URLs of the shapes an index page holds:  *)
(* scheme://netloc/path, /path and relative paths, each with an optional    *)
(* "#fragment" or "?query".                                                 *)
(***************************************************************************)

\* sep.join(parts)
RECURSIVE join(_, _)
join(parts, sep) ==
    IF parts = << >> THEN << >>
    ELSE IF Len(parts) = 1 THEN parts[1]
    ELSE parts[1] \o << sep >> \o join(Tail(parts), sep)

\* urlsplit: the scheme (without ":"), the netloc (without "//"), the path
\* and the rest ("?query" and "#fragment", with their marks).
SplitResult(scheme, netloc, r, q) ==
    [scheme |-> scheme, netloc |-> netloc, path |-> SubSeq(r, 1, q - 1),
     rest |-> Drop(r, q)]

SplitPath(scheme, netloc, r) ==
    SplitResult(scheme, netloc, r, FirstOf(r, {"?", "#"}))

SplitNetlocAt(scheme, r, n) ==
    SplitPath(scheme, SubSeq(r, 1, n - 1), Drop(r, n))

SplitNetloc(scheme, r) ==
    IF Len(r) >= 2 /\ r[1] = "/" /\ r[2] = "/"
    THEN SplitNetlocAt(scheme, Drop(r, 3), FirstOf(Drop(r, 3), {"/", "?", "#"}))
    ELSE SplitPath(scheme, << >>, r)

SplitSchemeAt(url, c) ==
    IF c > 1 /\ c <= Len(url) /\ \A j \in 1..(c - 1) : url[j] \in Letters
    THEN SplitNetloc(SubSeq(url, 1, c - 1), Drop(url, c + 1))
    ELSE SplitNetloc(<< >>, url)

urlsplit(url) == SplitSchemeAt(url, FirstOf(url, {":"}))

\* urlunsplit: a path that follows a netloc starts with "/".
urlunsplit(scheme, netloc, path, rest) ==
    scheme \o << ":", "/", "/" >> \o netloc
    \o (IF path # << >> /\ path[1] # "/" THEN << "/" >> ELSE << >>)
    \o path \o rest

\* segments[1:-1] = filter(None, segments[1:-1])
FilterMiddle(segs) ==
    IF Len(segs) <= 2 THEN segs
    ELSE << segs[1] >>
         \o SelectSeq(SubSeq(segs, 2, Len(segs) - 1), LAMBDA x : x # << >>)
         \o << segs[Len(segs)] >>

\* urljoin's removal of "." and ".." segments.
RECURSIVE RemoveDots(_, _)
RemoveDots(segs, out) ==
    IF segs = << >> THEN out
    ELSE IF segs[1] = << ".", "." >>
    THEN RemoveDots(Tail(segs),
                    IF out = << >> THEN out ELSE SubSeq(out, 1, Len(out) - 1))
    ELSE IF segs[1] = << "." >> THEN RemoveDots(Tail(segs), out)
    ELSE RemoveDots(Tail(segs), Append(out, segs[1]))

\* base_parts, without the last one unless it is empty.
BaseDir(bparts) ==
    IF bparts[Len(bparts)] # << >>
    THEN SubSeq(bparts, 1, Len(bparts) - 1)
    ELSE bparts

\* if segments[-1] in ('.', '..'): resolved_path.append('')
WithTrailing(segs, resolved) ==
    IF segs[Len(segs)] \in { << "." >>, << ".", "." >> }
    THEN Append(resolved, << >>)
    ELSE resolved

\* '/'.join(resolved_path) or '/'
PathOrRoot(path) == IF path = << >> THEN << "/" >> ELSE path

JoinSegments(b, u, segs) ==
    urlunsplit(b.scheme, b.netloc,
               PathOrRoot(join(WithTrailing(segs, RemoveDots(segs, << >>)), "/")),
               u.rest)

\* The query of the base is kept unless the reference has one.
JoinRest(brest, urest) ==
    IF urest # << >> /\ urest[1] = "?" THEN urest
    ELSE SubSeq(brest, 1, FirstOf(brest, {"#"}) - 1) \o urest

JoinSplit(base, url, b, u) ==
    IF u.scheme # << >> /\ u.scheme # b.scheme THEN url
    ELSE IF u.netloc # << >>
    THEN urlunsplit(b.scheme, u.netloc, u.path, u.rest)
    ELSE IF u.path = << >>
    THEN urlunsplit(b.scheme, b.netloc, b.path, JoinRest(b.rest, u.rest))
    ELSE JoinSegments(b, u,
           IF u.path[1] = "/" THEN split(u.path, "/")
           ELSE FilterMiddle(BaseDir(split(b.path, "/")) \o split(u.path, "/")))

\* urllib.parse.urljoin(base, url) for an absolute http(s) base.
urljoin(base, url) ==
    IF url = << >> THEN base
    ELSE JoinSplit(base, url, urlsplit(base), urlsplit(url))

\* posixpath.basename: what follows the last "/".
LastOf(parts) == parts[Len(parts)]

basename(path) == LastOf(split(path, "/"))

(***************************************************************************)
(* The strings of the program and of the index pages it is run against.     *)
(***************************************************************************)

\* The strings of the program.
Whl == ".whl"
Internal == "internal"
External == "external"
IndexUrl == "https://pypi.python.org/simple/"
PipSegment == "pip/"

\* Hrefs found on index pages.
Wheel100 == "../../packages/pkg-1.0.0-py3-none-any.whl#md5=0a"
Wheel200 == "pkg-2.0.0-py3-none-any.whl"
Wheel150rc1 == "pkg-1.5.0rc1-py3-none-any.whl"
Wheel10 == "pkg-10.0-py3-none-any.whl"
Wheel20Mirror == "https://mirror.example/pkg-2.0-py3-none-any.whl"
Wheel20Post == "/packages/pkg-2.0.post1-py3-none-any.whl"
Sdist == "pkg-11.0.tar.gz"
ToolX09 == "toolX-0.9.whl"
ToolX10 == "toolX-1.0.whl"
Bare == "pkg.whl"
Wheel99 == "pkg-99.0-py3-none-any.whl"
Empty == ""

\* Another file name a caller may give a candidate.
Renamed == "copy.whl"

\* Runs of characters that the strings below share.
HostChars ==
    << "h", "t", "t", "p", "s", ":", "/", "/", "p", "y", "p", "i", ".",
       "p", "y", "t", "h", "o", "n", ".", "o", "r", "g", "/" >>
SimpleChars == << "s", "i", "m", "p", "l", "e", "/" >>
PipChars == << "p", "i", "p", "/" >>
PackagesChars == << "p", "a", "c", "k", "a", "g", "e", "s", "/" >>
TagsChars ==
    << "-", "p", "y", "3", "-", "n", "o", "n", "e", "-", "a", "n", "y" >>
WhlChars == << ".", "w", "h", "l" >>
PkgChars == << "p", "k", "g" >>
MirrorChars ==
    << "h", "t", "t", "p", "s", ":", "/", "/", "m", "i", "r", "r", "o",
       "r", ".", "e", "x", "a", "m", "p", "l", "e", "/" >>
ToolXChars == << "t", "o", "o", "l", "X", "-" >>
TernalChars == << "t", "e", "r", "n", "a", "l" >>

\* TLC cannot look inside a string, so Chars spells out, character by
\* character, every string the model handles; Str is its inverse.
CharsOf(s) ==
    CASE s = "?" ->
           << "?" >>
      [] s = ".whl" ->
           WhlChars
      [] s = "internal" ->
           << "i", "n" >> \o TernalChars
      [] s = "external" ->
           << "e", "x" >> \o TernalChars
      [] s = "https://pypi.python.org/simple/" ->
           HostChars \o SimpleChars
      [] s = "pip/" ->
           PipChars
      [] s = "https://pypi.python.org/simple/pip/" ->
           HostChars \o SimpleChars \o PipChars
      [] s = "../../packages/pkg-1.0.0-py3-none-any.whl#md5=0a" ->
           << ".", ".", "/", ".", ".", "/" >> \o PackagesChars \o PkgChars \o
           << "-", "1", ".", "0", ".", "0" >> \o TagsChars \o WhlChars \o
           << "#", "m", "d", "5", "=", "0", "a" >>
      [] s = "https://pypi.python.org/packages/pkg-1.0.0-py3-none-any.whl#md5=0a" ->
           HostChars \o PackagesChars \o PkgChars \o
           << "-", "1", ".", "0", ".", "0" >> \o TagsChars \o WhlChars \o
           << "#", "m", "d", "5", "=", "0", "a" >>
      [] s = "pkg-1.0.0-py3-none-any.whl" ->
           PkgChars \o << "-", "1", ".", "0", ".", "0" >> \o TagsChars \o
           WhlChars
      [] s = "pkg-2.0.0-py3-none-any.whl" ->
           PkgChars \o << "-", "2", ".", "0", ".", "0" >> \o TagsChars \o
           WhlChars
      [] s = "https://pypi.python.org/simple/pip/pkg-2.0.0-py3-none-any.whl" ->
           HostChars \o SimpleChars \o PipChars \o PkgChars \o
           << "-", "2", ".", "0", ".", "0" >> \o TagsChars \o WhlChars
      [] s = "pkg-1.5.0rc1-py3-none-any.whl" ->
           PkgChars \o << "-", "1", ".", "5", ".", "0", "r", "c", "1" >> \o
           TagsChars \o WhlChars
      [] s = "https://pypi.python.org/simple/pip/pkg-1.5.0rc1-py3-none-any.whl" ->
           HostChars \o SimpleChars \o PipChars \o PkgChars \o
           << "-", "1", ".", "5", ".", "0", "r", "c", "1" >> \o TagsChars \o
           WhlChars
      [] s = "pkg-10.0-py3-none-any.whl" ->
           PkgChars \o << "-", "1", "0", ".", "0" >> \o TagsChars \o WhlChars
      [] s = "https://pypi.python.org/simple/pip/pkg-10.0-py3-none-any.whl" ->
           HostChars \o SimpleChars \o PipChars \o PkgChars \o
           << "-", "1", "0", ".", "0" >> \o TagsChars \o WhlChars
      [] s = "https://mirror.example/pkg-2.0-py3-none-any.whl" ->
           MirrorChars \o PkgChars \o << "-", "2", ".", "0" >> \o TagsChars \o
           WhlChars
      [] s = "pkg-2.0-py3-none-any.whl" ->
           PkgChars \o << "-", "2", ".", "0" >> \o TagsChars \o WhlChars
      [] s = "/packages/pkg-2.0.post1-py3-none-any.whl" ->
           << "/" >> \o PackagesChars \o PkgChars \o
           << "-", "2", ".", "0", ".", "p", "o", "s", "t", "1" >> \o
           TagsChars \o WhlChars
      [] s = "https://pypi.python.org/packages/pkg-2.0.post1-py3-none-any.whl" ->
           HostChars \o PackagesChars \o PkgChars \o
           << "-", "2", ".", "0", ".", "p", "o", "s", "t", "1" >> \o
           TagsChars \o WhlChars
      [] s = "pkg-2.0.post1-py3-none-any.whl" ->
           PkgChars \o
           << "-", "2", ".", "0", ".", "p", "o", "s", "t", "1" >> \o
           TagsChars \o WhlChars
      [] s = "pkg-11.0.tar.gz" ->
           PkgChars \o
           << "-", "1", "1", ".", "0", ".", "t", "a", "r", ".", "g", "z" >>
      [] s = "https://pypi.python.org/simple/pip/pkg-11.0.tar.gz" ->
           HostChars \o SimpleChars \o PipChars \o PkgChars \o
           << "-", "1", "1", ".", "0", ".", "t", "a", "r", ".", "g", "z" >>
      [] s = "toolX-0.9.whl" ->
           ToolXChars \o << "0", ".", "9" >> \o WhlChars
      [] s = "https://pypi.python.org/simple/pip/toolX-0.9.whl" ->
           HostChars \o SimpleChars \o PipChars \o ToolXChars \o
           << "0", ".", "9" >> \o WhlChars
      [] s = "toolX-1.0.whl" ->
           ToolXChars \o << "1", ".", "0" >> \o WhlChars
      [] s = "https://pypi.python.org/simple/pip/toolX-1.0.whl" ->
           HostChars \o SimpleChars \o PipChars \o ToolXChars \o
           << "1", ".", "0" >> \o WhlChars
      [] s = "pkg.whl" ->
           PkgChars \o WhlChars
      [] s = "https://pypi.python.org/simple/pip/pkg.whl" ->
           HostChars \o SimpleChars \o PipChars \o PkgChars \o WhlChars
      [] s = "pkg-99.0-py3-none-any.whl" ->
           PkgChars \o << "-", "9", "9", ".", "0" >> \o TagsChars \o WhlChars
      [] s = "https://pypi.python.org/simple/pip/pkg-99.0-py3-none-any.whl" ->
           HostChars \o SimpleChars \o PipChars \o PkgChars \o
           << "-", "9", "9", ".", "0" >> \o TagsChars \o WhlChars
      [] s = "" ->
           << >>
      [] s = "copy.whl" ->
           << "c", "o", "p", "y" >> \o WhlChars

Texts ==
    { "?",
      ".whl",
      "internal",
      "external",
      "https://pypi.python.org/simple/",
      "pip/",
      "https://pypi.python.org/simple/pip/",
      "../../packages/pkg-1.0.0-py3-none-any.whl#md5=0a",
      "https://pypi.python.org/packages/pkg-1.0.0-py3-none-any.whl#md5=0a",
      "pkg-1.0.0-py3-none-any.whl",
      "pkg-2.0.0-py3-none-any.whl",
      "https://pypi.python.org/simple/pip/pkg-2.0.0-py3-none-any.whl",
      "pkg-1.5.0rc1-py3-none-any.whl",
      "https://pypi.python.org/simple/pip/pkg-1.5.0rc1-py3-none-any.whl",
      "pkg-10.0-py3-none-any.whl",
      "https://pypi.python.org/simple/pip/pkg-10.0-py3-none-any.whl",
      "https://mirror.example/pkg-2.0-py3-none-any.whl",
      "pkg-2.0-py3-none-any.whl",
      "/packages/pkg-2.0.post1-py3-none-any.whl",
      "https://pypi.python.org/packages/pkg-2.0.post1-py3-none-any.whl",
      "pkg-2.0.post1-py3-none-any.whl",
      "pkg-11.0.tar.gz",
      "https://pypi.python.org/simple/pip/pkg-11.0.tar.gz",
      "toolX-0.9.whl",
      "https://pypi.python.org/simple/pip/toolX-0.9.whl",
      "toolX-1.0.whl",
      "https://pypi.python.org/simple/pip/toolX-1.0.whl",
      "pkg.whl",
      "https://pypi.python.org/simple/pip/pkg.whl",
      "pkg-99.0-py3-none-any.whl",
      "https://pypi.python.org/simple/pip/pkg-99.0-py3-none-any.whl",
      "",
      "copy.whl" }

\* TLC computes a table once and looks it up afterwards.
CharTable == [s \in Texts |-> CharsOf(s)]

Chars(s) == CharTable[s]

\* The string spelled by cs ("?" for a string outside Texts).
Str(cs) ==
    IF \E s \in Texts : CharTable[s] = cs
    THEN CHOOSE s \in Texts : CharTable[s] = cs
    ELSE "?"

\* simple = urllib.parse.urljoin(index_url, "pip/")
SimpleUrl == Str(urljoin(Chars(IndexUrl), Chars(PipSegment)))

\* urllib.parse.urljoin(base, url), on strings.
JoinTable ==
    [base \in {IndexUrl, SimpleUrl}, url \in Texts |->
        Str(urljoin(Chars(base), Chars(url)))]

\* posixpath.basename(urllib.parse.urlparse(link).path), on strings.
FilenameTable == [link \in Texts |-> Str(basename(urlsplit(Chars(link)).path))]

\* filename.split("-")
PartsTable == [filename \in Texts |-> split(Chars(filename), "-")]

\* packaging.version.parse(token) for the second tokens of the file names.
ParseTable ==
    [token \in { PartsTable[f][2] : f \in { g \in Texts : Len(PartsTable[g]) >= 2 } },
     strict \in BOOLEAN |-> parse(token, strict)]

(***************************************************************************)
(* LinkExtractor                                                            *)
(***************************************************************************)

\* A start tag as html.parser reports it: the tag name and the list of
\* (attribute, value) pairs, duplicates kept, in the order written.
StartTag(tag, attrs) == [tag |-> tag, attrs |-> attrs]

\* The anchor <a rel=... href=...>.
Anchor(rel, href) == StartTag("a", << << "rel", rel >>, << "href", href >> >>)

\* A variant that appends the href as written, without joining it.
RECURSIVE AppendRawHrefs(_, _, _)
AppendRawHrefs(links, base_url, attrs) ==
    IF attrs = << >> THEN links
    ELSE AppendRawHrefs(
           IF attrs[1][1] = "href" THEN Append(links, attrs[1][2]) ELSE links,
           base_url, Tail(attrs))

\* The second loop of handle_starttag: every href attribute is joined to
\* the base URL and appended.
RECURSIVE AppendHrefs(_, _, _)
AppendHrefs(links, base_url, attrs) ==
    IF attrs = << >> THEN links
    ELSE AppendHrefs(
           IF attrs[1][1] = "href"
           THEN Append(links, JoinTable[base_url, attrs[1][2]])
           ELSE links,
           base_url, Tail(attrs))

\* A variant that does not look at the tag name.
AnyTagStartTag(links, base_url, tag, attrs) ==
    IF attrs = << >> THEN links
    ELSE IF ~ \E i \in 1..Len(attrs) :
                 attrs[i][1] = "rel" /\ attrs[i][2] = Internal
    THEN links
    ELSE AppendHrefs(links, base_url, attrs)

\* LinkExtractor.handle_starttag: self.links after the call.
handle_starttag(links, base_url, tag, attrs) ==
    IF tag # "a" THEN links
    ELSE IF attrs = << >> THEN links
    ELSE IF ~ \E i \in 1..Len(attrs) :
                 attrs[i][1] = "rel" /\ attrs[i][2] = Internal
    THEN links
    ELSE AppendHrefs(links, base_url, attrs)

\* parser.feed(text): handle_starttag on each start tag, in document order.
RECURSIVE feed(_, _, _)
feed(links, base_url, doc) ==
    IF doc = << >> THEN links
    ELSE feed(handle_starttag(links, base_url, doc[1].tag, doc[1].attrs),
              base_url, Tail(doc))

(***************************************************************************)
(* PipInstaller.find, after the page is fetched                             *)
(***************************************************************************)

Candidate(version, url, filename) ==
    [version |-> version, url |-> url, filename |-> filename]

\* filename = posixpath.basename(urllib.parse.urlparse(link).path)
Filename(link) == FilenameTable[link]

\* The loop of find over parser.links.  The result is the list of
\* candidates, or the exception the first offending link raises:
\* IndexError when the file name has no second "-" token, InvalidVersion
\* when a strict packaging rejects the token.
RECURSIVE Candidates(_, _, _)
RECURSIVE ConsiderFile(_, _, _, _)
RECURSIVE ConsiderParts(_, _, _, _, _)
RECURSIVE ConsiderVersion(_, _, _, _, _)

Candidates(links, strict, acc) ==
    IF links = << >> THEN [raised |-> "none", candidates |-> acc]
    ELSE ConsiderFile(links, strict, acc, Filename(links[1]))

\* A variant that takes every file, whatever its suffix.
ConsiderAnyFile(links, strict, acc, filename) ==
    ConsiderParts(links, strict, acc, filename, PartsTable[filename])

\* if not filename.endswith(".whl"): continue
ConsiderFile(links, strict, acc, filename) ==
    IF ~endswith(Chars(filename), Chars(Whl))
    THEN Candidates(Tail(links), strict, acc)
    ELSE ConsiderParts(links, strict, acc, filename, PartsTable[filename])

\* packaging.version.parse(wheel_parts[1])
ConsiderParts(links, strict, acc, filename, wheel_parts) ==
    IF Len(wheel_parts) < 2
    THEN [raised |-> "IndexError", candidates |-> acc]
    ELSE ConsiderVersion(links, strict, acc, filename,
                         ParseTable[wheel_parts[2], strict])

\* candidates.append(Candidate(version=..., url=link, filename=filename))
ConsiderVersion(links, strict, acc, filename, version) ==
    IF version = Invalid
    THEN [raised |-> "InvalidVersion", candidates |-> acc]
    ELSE Candidates(Tail(links), strict,
                    Append(acc, Candidate(version, links[1], filename)))

\* A variant that puts c before the candidates equal to it.
SlotsBeforeEqual(sortedSoFar, c) ==
    { i \in 1..(Len(sortedSoFar) + 1) :
        \A j \in i..Len(sortedSoFar) :
            ~VersionLess(c.version, sortedSoFar[j].version) }

\* Where a stable descending sort puts c among the already sorted ones:
\* after every candidate that is not smaller.
Slots(sortedSoFar, c) ==
    { i \in 1..(Len(sortedSoFar) + 1) :
        \A j \in i..Len(sortedSoFar) :
            VersionLess(sortedSoFar[j].version, c.version) }

Least(S) == CHOOSE i \in S : \A j \in S : i <= j

InsertAt(seq, c, k) ==
    SubSeq(seq, 1, k - 1) \o << c >> \o SubSeq(seq, k, Len(seq))

\* A variant that sorts without reverse=True.
InsertAscending(sortedSoFar, c) ==
    InsertAt(sortedSoFar, c,
             Least({ i \in 1..(Len(sortedSoFar) + 1) :
                       \A j \in i..Len(sortedSoFar) :
                           VersionLess(c.version, sortedSoFar[j].version) }))

InsertDescending(sortedSoFar, c) ==
    InsertAt(sortedSoFar, c, Least(Slots(sortedSoFar, c)))

\* sorted(candidates, key=lambda x: x.version, reverse=True): the sort is
\* stable, and stays so under reverse=True.
RECURSIVE sorted(_, _)
sorted(candidates, acc) ==
    IF candidates = << >> THEN acc
    ELSE sorted(Tail(candidates), InsertDescending(acc, candidates[1]))

\* What find does with the extracted links: the candidate it returns, or
\* the exception it raises.
Selected(r) ==
    IF r.raised # "none" THEN [raised |-> r.raised]
    ELSE IF r.candidates = << >> THEN [raised |-> "NoAcceptableFile"]
    ELSE [raised |-> "none", candidate |-> sorted(r.candidates, << >>)[1]]

Select(links, strict) == Selected(Candidates(links, strict, << >>))

(***************************************************************************)
(* The state                                                                *)
(***************************************************************************)

\* The installer processes.
Procs == {1, 2}

\* The longest start-tag sequence fed to a LinkExtractor on its own.
MaxTags == 2
\* The longest index page a find is run against on its own.
MaxLinks == 3
\* The number of top-level calls (find, download, install) in a run.
MaxCalls == 2

VARIABLES
    strict,     \* whether the installed packaging rejects non-PEP 440 versions
    page,       \* the start tags of the index page the server holds
    files,      \* the file system: cache path -> file content
    dirs,       \* the directories <<cache_dir, key>> that exist
    envDirs,    \* the environment directories that exist
    gets,       \* URL -> GETs issued for it so far
    mkdirs,     \* directory -> makedirs calls that created it
    writes,     \* cache path -> write calls made on it
    runs,       \* the external processes started, in order
    calls,      \* top-level calls started so far
    done,       \* the calls that ended, in order, each with what it did
    cache_dir,  \* per process: self.cache_dir
    environment,\* per process: self.environment
    pc,         \* per process: where the current call stands
    op,         \* per process: the top-level call, current or last
    links,      \* per process: parser.links of the current call's find
    cand,       \* per process: the candidate found or passed in
    resp,       \* per process: resp.content of the artifact GET
    cache_path, \* per process: download's cache_path
    ret,        \* per process: "ok", or the exception the last call raised
    eff,        \* per process: what the current call did so far
    present,    \* per process: the cache paths that held a file when the
                \* current call started
    session,    \* per process: self.session is "open" or "closed" ("none"
                \* before an installer is constructed)
    closes,     \* per process: the calls of session.close() on its installer
    exDoc,      \* the start tags fed to a LinkExtractor used on its own
    exPos,      \* how many of them were fed
    exLinks     \* that extractor's self.links

world == << strict, page, files, dirs, envDirs, gets, mkdirs, writes, runs >>
procVars == << calls, done, cache_dir, environment, pc, op, links, cand, resp,
               cache_path, ret, eff, present, session, closes >>
exVars == << exDoc, exPos, exLinks >>
vars == << world, procVars, exVars >>

\* hashlib.sha256(url.encode("utf8")).hexdigest(): a digest that tells
\* URLs apart.
sha256(url) == << "sha256", url >>

\* A variant that keeps every file under the one root "cache".
CachePathOneRoot(dir, candidate) ==
    << "cache", sha256(candidate.url), candidate.filename >>

\* A variant that hashes the file name instead of the URL.
CachePathByName(dir, candidate) ==
    << dir, sha256(candidate.filename), candidate.filename >>

\* os.path.join(self.cache_dir, hashed, candidate.filename)
CachePath(dir, candidate) == << dir, sha256(candidate.url), candidate.filename >>

\* os.path.dirname(cache_path)
dirname(path) == << path[1], path[2] >>

\* A variant that takes an empty file for a missing one.
ExistsNonEmpty(path) == path \in DOMAIN files /\ files[path] # << >>

\* os.path.exists
exists(path) == path \in DOMAIN files

\* Response.raise_for_status raises on a 4xx or 5xx status.
StatusCodes == {200, 404}
IsError(status) == status >= 400

\* The bodies an artifact GET may answer with, as sequences of blocks.
Bodies == { << "b1", "b2" >>, << "c1" >> }

NoCandidate == Candidate(Invalid, "", "")
NoPath == << >>
NoBody == << >>
NoFile == << "absent" >>
\* Nothing done yet: no GET (and so no status), no makedirs, write or process.
\* exit is the exit status check_call saw, -1 before there is one.
NoEffect ==
    [get |-> 0, status |-> 0, mkdir |-> 0, write |-> 0, run |-> 0, exit |-> -1]

Count(f, k) == IF k \in DOMAIN f THEN f[k] ELSE 0
Bump(f, k) ==
    [x \in DOMAIN f \cup {k} |-> IF x = k THEN Count(f, k) + 1 ELSE f[x]]

\* The anchors an index page is made of.
RichTags ==
    { Anchor(Internal, h) :
        h \in { Wheel100, Wheel200, Wheel150rc1, Wheel10, Wheel20Mirror,
                Wheel20Post, Sdist, ToolX09, Bare } }
    \cup { Anchor(External, Wheel99) }

\* The index page with one internal anchor per href.
IndexPage(hrefs) == [i \in 1..Len(hrefs) |-> Anchor(Internal, hrefs[i])]

\* The index pages served to the installer.
ServedPages ==
    { IndexPage(hrefs) :
        hrefs \in { << >>, << Sdist >>, << Wheel200 >>,
                    << Wheel100, Wheel200 >>, << ToolX09, ToolX10 >> } }

SeqsUpTo(S, n) == UNION { [1..k -> S] : k \in 0..n }

\* The start tags a LinkExtractor may be fed.
AttrPool ==
    { << "rel", Internal >>, << "rel", External >>, << "class", Internal >>,
      << "href", Wheel200 >>, << "href", Wheel20Mirror >>,
      << "href", Empty >> }

AttrLists ==
    { << >> } \cup { << a >> : a \in AttrPool }
    \cup { << a, b >> : a \in AttrPool, b \in AttrPool }
    \cup { << << "rel", External >>, << "rel", Internal >>, << "href", h >> >> :
             h \in { Wheel100, Wheel20Post } }
    \cup { << << "rel", Internal >>, << "href", Wheel200 >>,
               << "href", Wheel20Mirror >> >> }

FedTags ==
    { StartTag("a", attrs) : attrs \in AttrLists }
    \cup { StartTag("link", << << "rel", Internal >>, << "href", Wheel200 >> >>),
           StartTag("div", << >>) }

(***************************************************************************)
(* Initial states                                                           *)
(***************************************************************************)

InitProcs ==
    /\ calls = 0
    /\ done = << >>
    /\ cache_dir = [p \in Procs |-> "cache"]
    /\ environment = [p \in Procs |-> "env"]
    /\ pc = [p \in Procs |-> "idle"]
    /\ op = [p \in Procs |-> "none"]
    /\ links = [p \in Procs |-> << >>]
    /\ cand = [p \in Procs |-> NoCandidate]
    /\ resp = [p \in Procs |-> NoBody]
    /\ cache_path = [p \in Procs |-> NoPath]
    /\ ret = [p \in Procs |-> "none"]
    /\ eff = [p \in Procs |-> NoEffect]
    /\ present = [p \in Procs |-> {}]
    /\ session = [p \in Procs |-> "open"]
    /\ closes = [p \in Procs |-> 0]

InitWorld ==
    /\ strict \in BOOLEAN
    /\ files = << >>
    /\ dirs = {}
    /\ envDirs = {"env"}
    /\ gets = << >>
    /\ mkdirs = << >>
    /\ writes = << >>
    /\ runs = << >>

InitNoExtractor ==
    /\ exDoc = << >>
    /\ exPos = 0
    /\ exLinks = << >>

\* An installer, its cache empty, facing an index page.
Init ==
    /\ page \in ServedPages
    /\ InitWorld /\ InitProcs /\ InitNoExtractor

\* A find on its own, facing a larger index page.
\* The index pages find is tried on: up to MaxLinks anchors, no anchor twice.
FoundPages ==
    { s \in SeqsUpTo(RichTags, MaxLinks) :
        \A i, j \in 1..Len(s) : i # j => s[i] # s[j] }

InitFind ==
    /\ page \in FoundPages
    /\ InitWorld /\ InitProcs /\ InitNoExtractor

\* A LinkExtractor on its own, about to be fed a document.
InitExtract ==
    /\ exDoc \in SeqsUpTo(FedTags, MaxTags)
    /\ exPos = 0
    /\ exLinks = << >>
    /\ page = << >>
    /\ InitWorld /\ InitProcs

(***************************************************************************)
(* Calls and returns                                                        *)
(***************************************************************************)

\* Process p starts the top-level call o at location at.
Start(p, o, at, c) ==
    /\ pc[p] = "idle"
    /\ calls < MaxCalls
    /\ calls' = calls + 1
    /\ op' = [op EXCEPT ![p] = o]
    /\ pc' = [pc EXCEPT ![p] = at]
    /\ cand' = [cand EXCEPT ![p] = c]
    /\ links' = [links EXCEPT ![p] = << >>]
    /\ resp' = [resp EXCEPT ![p] = NoBody]
    /\ cache_path' = [cache_path EXCEPT ![p] = NoPath]
    /\ ret' = [ret EXCEPT ![p] = "running"]
    /\ eff' = [eff EXCEPT ![p] = NoEffect]
    /\ present' = [present EXCEPT ![p] = DOMAIN files]
    /\ UNCHANGED << world, done, cache_dir, environment, session, closes,
                    exVars >>

\* The candidates a caller may hand to download: one per wheel link of the
\* page, and the URL of the first of them under another file name.
KnownCandidates ==
    LET ls == feed(<< >>, SimpleUrl, page)
        whl == { i \in 1..Len(ls) : endswith(Chars(Filename(ls[i])), Chars(Whl)) }
    IN  { Candidate(Invalid, ls[i], Filename(ls[i])) : i \in whl }
        \cup { Candidate(Invalid, ls[i], Renamed) :
                 i \in { j \in whl : \A k \in whl : j <= k } }

CallFind(p) == Start(p, "find", "find", NoCandidate)

CallDownload(p) ==
    /\ pc[p] = "idle"
    /\ calls < MaxCalls
    /\ \E c \in KnownCandidates : Start(p, "download", "download", c)

CallInstall(p) == Start(p, "install", "find", NoCandidate)

\* Where p goes when install ends: out of the with block of create, or
\* back to the caller.
After(p) == IF op[p] = "create" THEN "exit" ELSE "idle"

\* A variant in which an exception leaves create without __exit__.
RaiseUnscoped(p, e) ==
    /\ pc' = [pc EXCEPT ![p] = "idle"]
    /\ ret' = [ret EXCEPT ![p] = e]

\* The current call of p ends by raising exception e.
Raise(p, e) ==
    /\ pc' = [pc EXCEPT ![p] = After(p)]
    /\ ret' = [ret EXCEPT ![p] = e]

\* A variant in which install starts the process right after find.
FindReturnsToRun(p) ==
    IF op[p] = "find"
    THEN /\ pc' = [pc EXCEPT ![p] = "idle"]
         /\ ret' = [ret EXCEPT ![p] = "ok"]
    ELSE /\ pc' = [pc EXCEPT ![p] = "run"]
         /\ UNCHANGED ret

\* find returns: to the caller, or to install's next statement.
FindReturns(p) ==
    IF op[p] = "find"
    THEN /\ pc' = [pc EXCEPT ![p] = "idle"]
         /\ ret' = [ret EXCEPT ![p] = "ok"]
    ELSE /\ pc' = [pc EXCEPT ![p] = "download"]
         /\ UNCHANGED ret

\* download returns cache_path: to the caller, or to install's next
\* statement.
DownloadReturns(p) ==
    IF op[p] = "download"
    THEN /\ pc' = [pc EXCEPT ![p] = "idle"]
         /\ ret' = [ret EXCEPT ![p] = "ok"]
    ELSE /\ pc' = [pc EXCEPT ![p] = "run"]
         /\ UNCHANGED ret

(***************************************************************************)
(* PipInstaller.find                                                        *)
(***************************************************************************)

\* The end of find: it raises, or returns the newest candidate.
FindSelected(p, r) ==
    IF r.raised # "none"
    THEN /\ Raise(p, r.raised)
         /\ UNCHANGED cand
    ELSE /\ cand' = [cand EXCEPT ![p] = r.candidate]
         /\ FindReturns(p)

\* A variant without resp.raise_for_status(): the page is parsed whatever
\* the status.
FindAnyStatus(p) ==
    /\ pc[p] = "find"
    /\ gets' = Bump(gets, SimpleUrl)
    /\ \E status \in StatusCodes :
         /\ eff' = [eff EXCEPT ![p].get = @ + 1, ![p].status = status]
         /\ links' = [links EXCEPT ![p] = feed(<< >>, SimpleUrl, page)]
         /\ FindSelected(p, Select(links'[p], strict))
    /\ UNCHANGED << strict, page, files, dirs, envDirs, mkdirs, writes, runs,
                    calls, cache_dir, environment, op, resp, cache_path,
                    exVars >>

\* find, whole: one GET of the simple page, then the page is parsed and
\* the newest wheel selected.
find(p) ==
    /\ pc[p] = "find"
    /\ gets' = Bump(gets, SimpleUrl)
    /\ \E status \in StatusCodes :
         /\ eff' = [eff EXCEPT ![p].get = @ + 1, ![p].status = status]
         /\ IF IsError(status)
            THEN /\ Raise(p, "HTTPError")
                 /\ UNCHANGED << links, cand >>
            ELSE /\ links' = [links EXCEPT ![p] = feed(<< >>, SimpleUrl, page)]
                 /\ FindSelected(p, Select(links'[p], strict))
    /\ UNCHANGED << strict, page, files, dirs, envDirs, mkdirs, writes, runs,
                    calls, cache_dir, environment, op, resp, cache_path,
                    exVars >>

(***************************************************************************)
(* PipInstaller.download, statement by statement                            *)
(***************************************************************************)

\* A variant that never looks the file up.
DownloadUncached(p) ==
    /\ pc[p] = "download"
    /\ cache_path' = [cache_path EXCEPT ![p] = CachePath(cache_dir[p], cand[p])]
    /\ pc' = [pc EXCEPT ![p] = "get"]
    /\ UNCHANGED << world, calls, cache_dir, environment, op, links, cand,
                    resp, ret, eff, exVars >>

\* cache_path is computed and looked up: a file that is there is returned
\* as it is.
DownloadCheck(p) ==
    /\ pc[p] = "download"
    /\ LET path == CachePath(cache_dir[p], cand[p])
       IN  /\ cache_path' = [cache_path EXCEPT ![p] = path]
           /\ IF exists(path)
              THEN DownloadReturns(p)
              ELSE /\ pc' = [pc EXCEPT ![p] = "get"]
                   /\ UNCHANGED ret
    /\ UNCHANGED << world, calls, cache_dir, environment, op, links, cand,
                    resp, eff, exVars >>

\* A variant that opens the cache file before it looks at the status.
DownloadGetOpensFirst(p) ==
    /\ pc[p] = "get"
    /\ gets' = Bump(gets, cand[p].url)
    /\ files' = [x \in DOMAIN files \cup { cache_path[p] } |->
                   IF x = cache_path[p] THEN << >> ELSE files[x]]
    /\ \E status \in StatusCodes :
         /\ eff' = [eff EXCEPT ![p].get = @ + 1, ![p].status = status]
         /\ IF IsError(status)
            THEN /\ Raise(p, "HTTPError")
                 /\ UNCHANGED resp
            ELSE \E body \in Bodies :
                   /\ resp' = [resp EXCEPT ![p] = body]
                   /\ pc' = [pc EXCEPT ![p] = "dircheck"]
                   /\ UNCHANGED ret
    /\ UNCHANGED << strict, page, dirs, envDirs, mkdirs, writes, runs,
                    calls, cache_dir, environment, op, links, cand,
                    cache_path, exVars >>

\* resp = self.session.get(candidate.url); resp.raise_for_status()
DownloadGet(p) ==
    /\ pc[p] = "get"
    /\ gets' = Bump(gets, cand[p].url)
    /\ \E status \in StatusCodes :
         /\ eff' = [eff EXCEPT ![p].get = @ + 1, ![p].status = status]
         /\ IF IsError(status)
            THEN /\ Raise(p, "HTTPError")
                 /\ UNCHANGED resp
            ELSE \E body \in Bodies :
                   /\ resp' = [resp EXCEPT ![p] = body]
                   /\ pc' = [pc EXCEPT ![p] = "dircheck"]
                   /\ UNCHANGED ret
    /\ UNCHANGED << strict, page, files, dirs, envDirs, mkdirs, writes, runs,
                    calls, cache_dir, environment, op, links, cand,
                    cache_path, exVars >>

\* if not os.path.exists(os.path.dirname(cache_path))
DownloadDirCheck(p) ==
    /\ pc[p] = "dircheck"
    /\ pc' = [pc EXCEPT ![p] =
                IF dirname(cache_path[p]) \in dirs THEN "open" ELSE "makedirs"]
    /\ UNCHANGED << world, calls, cache_dir, environment, op, links, cand,
                    resp, cache_path, ret, eff, exVars >>

\* os.makedirs(os.path.dirname(cache_path)): it creates the directory, or
\* raises because the directory is there by now or cannot be created.
DownloadMakedirs(p) ==
    /\ pc[p] = "makedirs"
    /\ \/ /\ dirname(cache_path[p]) \notin dirs
          /\ dirs' = dirs \cup { dirname(cache_path[p]) }
          /\ mkdirs' = Bump(mkdirs, dirname(cache_path[p]))
          /\ eff' = [eff EXCEPT ![p].mkdir = @ + 1]
          /\ pc' = [pc EXCEPT ![p] = "open"]
          /\ UNCHANGED ret
       \/ /\ dirname(cache_path[p]) \in dirs
          /\ Raise(p, "FileExistsError")
          /\ UNCHANGED << dirs, mkdirs, eff >>
       \/ /\ dirname(cache_path[p]) \notin dirs
          /\ Raise(p, "OSError")
          /\ UNCHANGED << dirs, mkdirs, eff >>
    /\ UNCHANGED << strict, page, files, envDirs, gets, writes, runs, calls,
                    cache_dir, environment, op, links, cand, resp,
                    cache_path, exVars >>

\* open(cache_path, "wb"): the file is created, or cut to nothing.
DownloadOpen(p) ==
    /\ pc[p] = "open"
    /\ \/ /\ files' = [x \in DOMAIN files \cup { cache_path[p] } |->
                         IF x = cache_path[p] THEN << >> ELSE files[x]]
          /\ pc' = [pc EXCEPT ![p] = "write"]
          /\ UNCHANGED ret
       \/ /\ Raise(p, "OSError")
          /\ UNCHANGED files
    /\ UNCHANGED << strict, page, dirs, envDirs, gets, mkdirs, writes, runs,
                    calls, cache_dir, environment, op, links, cand, resp,
                    cache_path, eff, exVars >>

\* What the file holds once blocks 1..n of body are written from its start.
Written(old, body, n) ==
    SubSeq(body, 1, n) \o SubSeq(old, n + 1, Len(old))

\* fp.write(resp.content), then the with block closes the file and
\* download returns; or the write is cut short (a full disk, an interrupt),
\* which leaves what was written so far and raises.
DownloadWrite(p) ==
    /\ pc[p] = "write"
    /\ writes' = Bump(writes, cache_path[p])
    /\ eff' = [eff EXCEPT ![p].write = @ + 1]
    /\ \/ /\ files' = [files EXCEPT ![cache_path[p]] =
                         Written(@, resp[p], Len(resp[p]))]
          /\ DownloadReturns(p)
       \/ \E n \in 0..(Len(resp[p]) - 1), e \in {"OSError", "KeyboardInterrupt"} :
            /\ files' = [files EXCEPT ![cache_path[p]] = Written(@, resp[p], n)]
            /\ Raise(p, e)
    /\ UNCHANGED << strict, page, dirs, envDirs, gets, mkdirs, runs, calls,
                    cache_dir, environment, op, links, cand, resp,
                    cache_path, exVars >>

(***************************************************************************)
(* PipInstaller.install, after find and download returned                   *)
(***************************************************************************)

\* A variant that puts the environment in PYTHONPATH, not the file.
CommandNoPath(env, filename) ==
    [executable |-> << env, "bin", "python" >>,
     argument |-> filename,
     PYTHONPATH |-> << env >>]

\* The argument list and the environment of subprocess.check_call.
Command(env, filename) ==
    [executable |-> << env, "bin", "python" >>,
     argument |-> filename,
     PYTHONPATH |-> filename]

\* A variant that starts the process again when it failed.
RunTwice(p) ==
    /\ pc[p] = "run"
    /\ \E status \in {0, 1} :
         /\ eff' = [eff EXCEPT ![p].run = @ + (1 + status),
                               ![p].exit = status]
         /\ runs' = Append(runs, [by |-> p, status |-> status,
                                  command |-> Command(environment[p],
                                                      cache_path[p])])
         /\ IF status = 0
            THEN /\ pc' = [pc EXCEPT ![p] = After(p)]
                 /\ ret' = [ret EXCEPT ![p] = "ok"]
            ELSE Raise(p, "CalledProcessError")
    /\ UNCHANGED << strict, page, files, dirs, envDirs, gets, mkdirs, writes,
                    calls, cache_dir, environment, op, links, cand, resp,
                    cache_path, exVars >>

\* subprocess.check_call: the process is started and waited for; an exit
\* status other than 0 raises CalledProcessError.
Run(p) ==
    /\ pc[p] = "run"
    /\ \E status \in {0, 1} :
         /\ eff' = [eff EXCEPT ![p].run = @ + 1, ![p].exit = status]
         /\ runs' = Append(runs, [by |-> p, status |-> status,
                                  command |-> Command(environment[p],
                                                      cache_path[p])])
         /\ IF status = 0
            THEN /\ pc' = [pc EXCEPT ![p] = After(p)]
                 /\ ret' = [ret EXCEPT ![p] = "ok"]
            ELSE Raise(p, "CalledProcessError")
    /\ UNCHANGED << strict, page, files, dirs, envDirs, gets, mkdirs, writes,
                    calls, cache_dir, environment, op, links, cand, resp,
                    cache_path, exVars >>

(***************************************************************************)
(* A LinkExtractor on its own                                               *)
(***************************************************************************)

\* The parser reports the next start tag of the document.
HandleStartTag ==
    /\ exPos < Len(exDoc)
    /\ exPos' = exPos + 1
    /\ exLinks' = handle_starttag(exLinks, SimpleUrl, exDoc[exPos + 1].tag,
                                  exDoc[exPos + 1].attrs)
    /\ UNCHANGED << exDoc, world, procVars >>

(***************************************************************************)
(* Specifications                                                           *)
(***************************************************************************)

download(p) ==
    \/ DownloadCheck(p)
    \/ DownloadGet(p)
    \/ DownloadDirCheck(p)
    \/ DownloadMakedirs(p)
    \/ DownloadOpen(p)
    \/ DownloadWrite(p)

\* What is kept of a call of p that has just ended.
Summary(p) ==
    [by |-> p, op |-> op[p], root |-> cache_dir[p], url |-> cand'[p].url,
     filename |-> cand'[p].filename, ret |-> ret'[p],
     path |-> cache_path'[p], eff |-> eff'[p], body |-> resp'[p],
     content |-> IF cache_path'[p] \in DOMAIN files'
                 THEN files'[cache_path'[p]] ELSE NoFile,
     closes |-> closes'[p], env |-> environment[p] \in envDirs']

\* The call is added to done when the step ends it.
Logged(p) ==
    done' = IF pc'[p] = "idle" THEN Append(done, Summary(p)) ELSE done

\* A step of find, download or the process, with what it leaves alone.
Inside(p) ==
    /\ find(p) \/ download(p) \/ Run(p)
    /\ UNCHANGED << present, session, closes >>
    /\ Logged(p)

\* Every step process p can take.
Step(p) ==
    \/ CallFind(p)
    \/ CallDownload(p)
    \/ CallInstall(p)
    \/ Inside(p)

\* One installer process making calls one after the other.
Next == Step(1)

Spec == Init /\ [][Next]_vars

\* One process that only calls find.
NextFind ==
    \/ CallFind(1)
    \/ find(1) /\ UNCHANGED << present, session, closes >> /\ Logged(1)

SpecFind == InitFind /\ [][NextFind]_vars

\* Two installers, each with the cache root it was constructed with: the
\* same one, or one of its own.
InitRace ==
    /\ page = IndexPage(<< Wheel200 >>)
    /\ InitWorld /\ InitNoExtractor
    /\ done = << >> /\ calls = 0
    /\ cache_dir \in { [p \in Procs |-> "cache"],
                       [p \in Procs |-> IF p = 1 THEN "cache" ELSE "other"] }
    /\ environment = [p \in Procs |-> "env"]
    /\ pc = [p \in Procs |-> "idle"]
    /\ op = [p \in Procs |-> "none"]
    /\ links = [p \in Procs |-> << >>]
    /\ cand = [p \in Procs |-> NoCandidate]
    /\ resp = [p \in Procs |-> NoBody]
    /\ cache_path = [p \in Procs |-> NoPath]
    /\ ret = [p \in Procs |-> "none"]
    /\ eff = [p \in Procs |-> NoEffect]
    /\ present = [p \in Procs |-> {}]
    /\ session = [p \in Procs |-> "open"]
    /\ closes = [p \in Procs |-> 0]

\* Two installer processes whose installs interleave.
NextRace ==
    \E p \in Procs :
        \/ CallInstall(p)
        \/ Inside(p)

SpecRace == InitRace /\ [][NextRace]_vars

(***************************************************************************)
(* The command line: pvr create NAME and pvr remove NAME                    *)
(***************************************************************************)

\* create and remove start; target is environment[p], the path of NAME
\* under the environments directory.
CallCreate(p) == Start(p, "create", "create", NoCandidate)

CallRemove(p) == Start(p, "remove", "remove", NoCandidate)

\* A variant of create that does not look for an existing environment.
CreateUnchecked(p) ==
    /\ pc[p] = "create"
    /\ pc' = [pc EXCEPT ![p] = "build"]
    /\ UNCHANGED << world, calls, cache_dir, environment, op, links, cand,
                    resp, cache_path, ret, eff, present, session, closes,
                    exVars >>
    /\ Logged(p)

\* if os.path.exists(target): raise click.ClickException(...)
CreateCheck(p) ==
    /\ pc[p] = "create"
    /\ IF environment[p] \in envDirs
       THEN /\ pc' = [pc EXCEPT ![p] = "idle"]
            /\ ret' = [ret EXCEPT ![p] = "ClickException"]
       ELSE /\ pc' = [pc EXCEPT ![p] = "build"]
            /\ UNCHANGED ret
    /\ UNCHANGED << world, calls, cache_dir, environment, op, links, cand,
                    resp, cache_path, eff, present, session, closes, exVars >>
    /\ Logged(p)

\* EnvBuilder(system_site_packages=False, clear=False).create(target): the
\* environment directory exists afterwards.
CreateBuild(p) ==
    /\ pc[p] = "build"
    /\ envDirs' = envDirs \cup { environment[p] }
    /\ pc' = [pc EXCEPT ![p] = "enter"]
    /\ UNCHANGED << strict, page, files, dirs, gets, mkdirs, writes, runs,
                    calls, done, cache_dir, environment, op, links, cand,
                    resp, cache_path, ret, eff, present, closes, session,
                    exVars >>

\* with PipInstaller(target, cache_dir=...) as installer: __init__ opens the
\* session, __enter__ returns the installer, and installer.install() starts.
CreateEnter(p) ==
    /\ pc[p] = "enter"
    /\ session' = [session EXCEPT ![p] = "open"]
    /\ closes' = [closes EXCEPT ![p] = 0]
    /\ pc' = [pc EXCEPT ![p] = "find"]
    /\ UNCHANGED << world, calls, done, cache_dir, environment, op, links,
                    cand, resp, cache_path, ret, eff, present, exVars >>

\* __exit__(*args): self.close(), which is self.session.close(); it returns
\* None, so what install returned or raised is what create ends with.
CreateExit(p) ==
    /\ pc[p] = "exit"
    /\ session' = [session EXCEPT ![p] = "closed"]
    /\ closes' = [closes EXCEPT ![p] = @ + 1]
    /\ pc' = [pc EXCEPT ![p] = "idle"]
    /\ UNCHANGED << world, calls, cache_dir, environment, op, links, cand,
                    resp, cache_path, ret, eff, present, exVars >>
    /\ Logged(p)

\* shutil.rmtree(target)
RemoveTree(p) ==
    /\ pc[p] = "remove"
    /\ pc' = [pc EXCEPT ![p] = "idle"]
    /\ IF environment[p] \in envDirs
       THEN /\ envDirs' = envDirs \ { environment[p] }
            /\ ret' = [ret EXCEPT ![p] = "ok"]
       ELSE /\ UNCHANGED envDirs
            /\ ret' = [ret EXCEPT ![p] = "FileNotFoundError"]
    /\ UNCHANGED << strict, page, files, dirs, gets, mkdirs, writes, runs,
                    calls, cache_dir, environment, op, links, cand, resp,
                    cache_path, eff, present, session, closes, exVars >>
    /\ Logged(p)

\* No environment exists yet and no installer has been constructed.
InitCli ==
    /\ page \in { IndexPage(<< >>), IndexPage(<< Wheel200 >>) }
    /\ strict \in BOOLEAN
    /\ files = << >> /\ dirs = {} /\ envDirs = {}
    /\ gets = << >> /\ mkdirs = << >> /\ writes = << >> /\ runs = << >>
    /\ InitNoExtractor
    /\ done = << >> /\ calls = 0
    /\ cache_dir = [p \in Procs |-> "cache"]
    /\ environment = [p \in Procs |-> "env"]
    /\ pc = [p \in Procs |-> "idle"]
    /\ op = [p \in Procs |-> "none"]
    /\ links = [p \in Procs |-> << >>]
    /\ cand = [p \in Procs |-> NoCandidate]
    /\ resp = [p \in Procs |-> NoBody]
    /\ cache_path = [p \in Procs |-> NoPath]
    /\ ret = [p \in Procs |-> "none"]
    /\ eff = [p \in Procs |-> NoEffect]
    /\ present = [p \in Procs |-> {}]
    /\ session = [p \in Procs |-> "none"]
    /\ closes = [p \in Procs |-> 0]

\* One user running pvr create and pvr remove, one command after another.
NextCli ==
    \/ CallCreate(1)
    \/ CallRemove(1)
    \/ CreateCheck(1)
    \/ CreateBuild(1)
    \/ CreateEnter(1)
    \/ Inside(1)
    \/ CreateExit(1)
    \/ RemoveTree(1)

SpecCli == InitCli /\ [][NextCli]_vars

NextExtract == HandleStartTag

SpecExtract == InitExtract /\ [][NextExtract]_vars

(***************************************************************************)
(* What the properties are stated with                                      *)
(***************************************************************************)

\* The file names that end in ".whl".
WheelNames ==
    { "pkg-1.0.0-py3-none-any.whl", "pkg-2.0.0-py3-none-any.whl",
      "pkg-1.5.0rc1-py3-none-any.whl", "pkg-10.0-py3-none-any.whl",
      "pkg-2.0-py3-none-any.whl", "pkg-2.0.post1-py3-none-any.whl",
      "pkg-99.0-py3-none-any.whl", "toolX-0.9.whl", "toolX-1.0.whl",
      "pkg.whl", "copy.whl" }

\* The wheel names whose second "-" token is a PEP 440 version.
Pep440Names == { f \in WheelNames : f \notin { "toolX-0.9.whl", "toolX-1.0.whl",
                                               "pkg.whl", "copy.whl" } }

\* Where the versions in the file names stand in the order
\* 0.9 < 1.0 < 1.5.0rc1 < 2.0 = 2.0.0 < 2.0.post1 < 10.0 < 99.0.
Rank(filename) ==
    CASE filename = "toolX-0.9.whl" -> 1
      [] filename \in { "pkg-1.0.0-py3-none-any.whl", "toolX-1.0.whl" } -> 2
      [] filename = "pkg-1.5.0rc1-py3-none-any.whl" -> 3
      [] filename \in { "pkg-2.0.0-py3-none-any.whl",
                        "pkg-2.0-py3-none-any.whl" } -> 4
      [] filename = "pkg-2.0.post1-py3-none-any.whl" -> 5
      [] filename = "pkg-10.0-py3-none-any.whl" -> 6
      [] filename = "pkg-99.0-py3-none-any.whl" -> 7
      [] OTHER -> 0

\* The absolute URL an href of a page at SimpleUrl stands for.
Resolved(href) ==
    CASE href = Wheel100 ->
           "https://pypi.python.org/packages/pkg-1.0.0-py3-none-any.whl#md5=0a"
      [] href = Wheel20Mirror -> "https://mirror.example/pkg-2.0-py3-none-any.whl"
      [] href = Wheel20Post ->
           "https://pypi.python.org/packages/pkg-2.0.post1-py3-none-any.whl"
      [] href = Empty -> "https://pypi.python.org/simple/pip/"
      [] href = Wheel200 ->
           "https://pypi.python.org/simple/pip/pkg-2.0.0-py3-none-any.whl"
      [] href = Wheel150rc1 ->
           "https://pypi.python.org/simple/pip/pkg-1.5.0rc1-py3-none-any.whl"
      [] href = Wheel10 ->
           "https://pypi.python.org/simple/pip/pkg-10.0-py3-none-any.whl"
      [] href = Wheel99 ->
           "https://pypi.python.org/simple/pip/pkg-99.0-py3-none-any.whl"
      [] href = Sdist -> "https://pypi.python.org/simple/pip/pkg-11.0.tar.gz"
      [] href = ToolX09 -> "https://pypi.python.org/simple/pip/toolX-0.9.whl"
      [] href = ToolX10 -> "https://pypi.python.org/simple/pip/toolX-1.0.whl"
      [] href = Bare -> "https://pypi.python.org/simple/pip/pkg.whl"

\* The file an href names: the last segment of its path.
FileOf(href) ==
    CASE href = Wheel100 -> "pkg-1.0.0-py3-none-any.whl"
      [] href = Wheel20Mirror -> "pkg-2.0-py3-none-any.whl"
      [] href = Wheel20Post -> "pkg-2.0.post1-py3-none-any.whl"
      [] OTHER -> href

\* An <a> with a rel attribute that is exactly "internal" and an href.
Qualifies(t) ==
    /\ t.tag = "a"
    /\ \E i \in 1..Len(t.attrs) : t.attrs[i] = << "rel", Internal >>
    /\ \E i \in 1..Len(t.attrs) : t.attrs[i][1] = "href"

IsHref(a) == a[1] = "href"

HrefsOf(t) == SelectSeq(t.attrs, IsHref)

\* The hrefs of the qualifying anchors of a document, in document order.
RECURSIVE InternalHrefs(_)
InternalHrefs(doc) ==
    IF doc = << >> THEN << >>
    ELSE (IF Qualifies(doc[1])
          THEN [i \in 1..Len(HrefsOf(doc[1])) |-> HrefsOf(doc[1])[i][2]]
          ELSE << >>) \o InternalHrefs(Tail(doc))

\* The wheel files the internal links of the index page name.
InternalWheels ==
    { h \in { InternalHrefs(page)[i] : i \in 1..Len(InternalHrefs(page)) } :
        FileOf(h) \in WheelNames }

\* The calls that ended.
Ended == 1..Len(done)

\* The GETs of the artifact a call issued: all but install's GET of the
\* index page.
ArtifactGets(c) == IF c.op = "install" THEN c.eff.get - 1 ELSE c.eff.get

SameCandidate(a, b) ==
    a.root = b.root /\ a.url = b.url /\ a.filename = b.filename

IsDownload(c) == c.op = "download" /\ c.ret = "ok"

(***************************************************************************)
(* PipInstaller.download and the cache                                      *)
(***************************************************************************)

\* The first call that computes the cache path of done[i].
FirstOnPath(i) == \A k \in 1..(i - 1) : done[k].path # done[i].path

TwoDownloads(i, j) ==
    /\ i < j
    /\ IsDownload(done[i]) /\ IsDownload(done[j])
    /\ SameCandidate(done[i], done[j])
    /\ FirstOnPath(i)

\* C1: when download is called twice with the same candidate on the same
\* cache root and both calls return, the first being the first to use that
\* cache path, the two calls issue exactly one GET between them: the first
\* issues one, the second none (and it creates and writes nothing); both
\* return the same path, and the file at that path holds the body of the
\* first GET after each of the two calls.
C1_SecondDownloadIsHit ==
    \A i \in Ended, j \in Ended :
        TwoDownloads(i, j) =>
            /\ done[i].eff.get = 1 /\ done[j].eff.get = 0
            /\ done[j].eff.mkdir = 0 /\ done[j].eff.write = 0
            /\ done[i].path = done[j].path
            /\ done[i].content = done[i].body
            /\ done[j].content = done[i].body

\* Two downloads of one candidate have returned.
C1_Witness ==
    /\ Len(done) >= 2
    /\ TwoDownloads(1, 2)
    /\ done[1].body \in Bodies

\* C4 as stated: for each candidate URL there is at most one GET, at most
\* one directory creation and at most one file write.
C4_OncePerUrl ==
    /\ \A u \in DOMAIN gets \ { SimpleUrl } : gets[u] <= 1
    /\ \A d \in DOMAIN mkdirs : mkdirs[d] <= 1
    /\ \A a \in DOMAIN writes, b \in DOMAIN writes :
          a[1] = b[1] /\ a[2] = b[2] => a = b /\ writes[a] <= 1

\* C4, amended: over any sequence of calls against one cache root, a call
\* issues at most one GET of the artifact, creates at most one directory and
\* writes at most one file; the directory of a URL is created at most once;
\* the file of a cache path (URL and file name) is written at most once, and
\* no call issues a GET for it after the call that wrote it.
C4_OncePerPath ==
    /\ \A i \in Ended :
          /\ ArtifactGets(done[i]) <= 1
          /\ done[i].eff.mkdir <= 1
          /\ done[i].eff.write <= 1
    /\ \A i \in Ended, j \in Ended :
          i < j /\ done[i].root = done[j].root /\ done[i].url = done[j].url
          => done[i].eff.mkdir + done[j].eff.mkdir <= 1
    /\ \A i \in Ended, j \in Ended :
          i < j /\ done[i].path = done[j].path /\ done[i].eff.write = 1
          => done[j].eff.write = 0 /\ ArtifactGets(done[j]) = 0

\* A URL was fetched twice, and its directory created and a file written.
C4_Witness ==
    \E u \in DOMAIN gets \ { SimpleUrl } :
        /\ gets[u] >= 2
        /\ << "cache", sha256(u) >> \in DOMAIN mkdirs
        /\ \E w \in DOMAIN writes : w[2] = sha256(u)

\* The step in which download finds a file at its cache path.
HitStep(p) ==
    /\ pc[p] = "download"
    /\ pc'[p] # "download"
    /\ << cache_dir[p], sha256(cand[p].url), cand[p].filename >> \in DOMAIN files

\* C8: whenever a file is at <cache_root>/<sha256(url)>/<filename> when
\* download looks, download returns that path at once: no GET, no directory
\* creation, no write, and the file keeps its content, whatever it is.
C8_TrustOnPresence ==
    [][\A p \in Procs :
         HitStep(p) =>
            /\ cache_path'[p] = << cache_dir[p], sha256(cand[p].url),
                                   cand[p].filename >>
            /\ pc'[p] = IF op[p] = "download" THEN "idle" ELSE "run"
            /\ op[p] = "download" => ret'[p] = "ok"
            /\ eff'[p] = eff[p]
            /\ << files, dirs, gets, mkdirs, writes >>' =
                  << files, dirs, gets, mkdirs, writes >>]_vars

\* A download returned the partial file an interrupted download had left.
C8_Witness ==
    \E i \in Ended, j \in Ended :
        /\ i < j
        /\ done[i].op = "download" /\ done[i].ret = "KeyboardInterrupt"
        /\ IsDownload(done[j]) /\ SameCandidate(done[i], done[j])
        /\ done[j].eff = NoEffect
        /\ done[j].content = done[i].content
        /\ done[j].content \notin Bodies

(***************************************************************************)
(* PipInstaller.find                                                        *)
(***************************************************************************)

\* find returned a candidate to its caller.
FindReturned(p) == op[p] = "find" /\ pc[p] = "idle" /\ ret[p] = "ok"

\* C2: the candidate find returns is an internal link of the page whose
\* file name ends in ".whl", and no internal wheel link of the page has a
\* greater version, in the order pre-release < release < post-release with
\* numeric release segments; for the pkg-1.0.0, pkg-2.0.0 and pkg-1.5.0rc1
\* wheels that is the pkg-2.0.0 wheel.
C2_FindReturnsNewestWheel ==
    \A p \in Procs :
        FindReturned(p) =>
            /\ cand[p].filename \in WheelNames
            /\ \E h \in InternalWheels :
                  cand[p].url = Resolved(h) /\ cand[p].filename = FileOf(h)
            /\ \A h \in InternalWheels :
                  Rank(FileOf(h)) <= Rank(cand[p].filename)

\* find returned the pkg-2.0.0 wheel from a page that lists the 1.0.0, 2.0.0
\* and 1.5.0rc1 wheels.
C2_Witness ==
    /\ FindReturned(1)
    /\ InternalWheels = { Wheel100, Wheel200, Wheel150rc1 }
    /\ cand[1].filename = "pkg-2.0.0-py3-none-any.whl"

\* find got the page and ended.
FindGotPage(p) ==
    op[p] = "find" /\ pc[p] = "idle" /\ calls > 0 /\ eff[p].status = 200

\* C5: when the index page is fetched and none of its internal links names
\* a file ending in ".whl" (an empty page included), find raises
\* NoAcceptableFile and returns no candidate.
C5_NoWheelNoCandidate ==
    \A p \in Procs :
        FindGotPage(p) /\ InternalWheels = {} =>
            ret[p] = "NoAcceptableFile" /\ cand[p] = NoCandidate

\* find ended on a page whose only wheel link is an external one.
C5_Witness ==
    /\ FindGotPage(1)
    /\ InternalWheels = {}
    /\ Len(page) = 2
    /\ \E i \in 1..Len(page) : page[i] = Anchor(External, Wheel99)
    /\ ret[1] = "NoAcceptableFile"

(***************************************************************************)
(* LinkExtractor                                                            *)
(***************************************************************************)

\* C6: feeding a start tag that is not an <a>, or has no attributes, or no
\* rel attribute that is exactly "internal", or no href attribute, adds
\* nothing to LinkExtractor.links.
C6_OnlyInternalAnchors ==
    [][exPos' = exPos + 1 /\ ~Qualifies(exDoc[exPos + 1])
         => exLinks' = exLinks]_vars

\* A <link rel="internal" href=...> and an <a rel="external" href=...>
\* were fed, and links is empty.
C6_Witness ==
    /\ exPos = 2
    /\ exDoc[1].tag = "link"
    /\ exDoc[2] = Anchor(External, Wheel200)
    /\ exLinks = << >>

\* C7: LinkExtractor.links is the hrefs of the qualifying anchors fed so
\* far, in document order, each resolved against the base URL into an
\* absolute URL (an anchor written with two href attributes gives both).
C7_LinksInDocumentOrder ==
    exLinks = [i \in 1..Len(InternalHrefs(SubSeq(exDoc, 1, exPos))) |->
                 Resolved(InternalHrefs(SubSeq(exDoc, 1, exPos))[i])]

\* Two qualifying anchors with relative hrefs were fed.
C7_Witness ==
    /\ exPos = 2
    /\ HrefsOf(exDoc[1]) = << << "href", Wheel100 >> >>
    /\ exDoc[2] = Anchor(Internal, Wheel200)
    /\ Len(exLinks) = 2

(***************************************************************************)
(* PipInstaller.install                                                     *)
(***************************************************************************)

\* install ended, and not on a failed GET or a file system error.
InstallEnded(p) ==
    /\ op[p] = "install" /\ pc[p] = "idle" /\ calls > 0
    /\ ret[p] \notin { "HTTPError", "OSError", "FileExistsError",
                       "KeyboardInterrupt" }

\* install started the external process once, on the cached file of a
\* newest wheel of the page.
RanNewest(p) ==
    /\ eff[p].run = 1
    /\ runs # << >>
    /\ \E h \in InternalWheels :
          /\ \A g \in InternalWheels : Rank(FileOf(g)) <= Rank(FileOf(h))
          /\ runs[Len(runs)].command =
                [executable |-> << environment[p], "bin", "python" >>,
                 argument |-> << cache_dir[p], sha256(Resolved(h)), FileOf(h) >>,
                 PYTHONPATH |-> << cache_dir[p], sha256(Resolved(h)), FileOf(h) >>]

C9_FailedRunIsFatal ==
    /\ \A p \in Procs : eff[p].run <= 1
    /\ \A i \in Ended :
          done[i].eff.exit > 0 =>
              /\ done[i].op = "install"
              /\ done[i].ret = "CalledProcessError"
              /\ done[i].eff.run = 1
              /\ done[i].path \in DOMAIN files
              /\ "env" \in envDirs

\* An install ended on a process that exited with status 1.
C9_Witness ==
    \E i \in Ended :
        /\ done[i].op = "install"
        /\ done[i].eff.exit = 1
        /\ done[i].eff.write = 1
        /\ done[i].ret = "CalledProcessError"

\* What a call that got an error status did: the one GET in find, or one
\* more for the artifact.
FailedGets(c) ==
    IF c.op = "install" /\ c.path # NoPath THEN 2 ELSE 1

\* C10: a call that gets a non-successful HTTP response, for the index page
\* or for the artifact, ends there by raising HTTPError to its caller: the
\* failing request is issued once, and nothing follows it (no directory, no
\* write, no external process).
C10_HttpErrorIsFatal ==
    /\ \A p \in Procs :
          IsError(eff[p].status) => pc[p] = "idle" /\ ret[p] = "HTTPError"
    /\ \A i \in Ended :
          IsError(done[i].eff.status) =>
              /\ done[i].ret = "HTTPError"
              /\ done[i].eff.get = FailedGets(done[i])
              /\ done[i].eff.mkdir = 0
              /\ done[i].eff.write = 0
              /\ done[i].eff.run = 0
              /\ done[i].content = NoFile

\* An install ended on the failed GET of the artifact, and one on the failed
\* GET of the index page.
C10_Witness ==
    /\ \E i \in Ended :
          /\ done[i].op = "install" /\ done[i].ret = "HTTPError"
          /\ done[i].eff.get = 2
    /\ \E i \in Ended :
          /\ done[i].op = "install" /\ done[i].ret = "HTTPError"
          /\ done[i].eff.get = 1

(***************************************************************************)
(* PipInstaller.find: ties and file names without a version                 *)
(***************************************************************************)

\* Where the links hrefs name wheel files.
WheelIndexes(hrefs) ==
    { i \in 1..Len(hrefs) : FileOf(hrefs[i]) \in WheelNames }

\* Link i names a wheel file of the greatest version among those at W.
BestIndex(hrefs, W, i) ==
    \A j \in W : Rank(FileOf(hrefs[j])) <= Rank(FileOf(hrefs[i]))

\* url is what the first of the greatest-version links at W resolves to.
FirstBest(hrefs, W, url) ==
    \E i \in W :
        /\ BestIndex(hrefs, W, i)
        /\ \A j \in W : j < i => ~BestIndex(hrefs, W, j)
        /\ url = Resolved(hrefs[i])

\* C12: when several wheel links have the greatest version, find returns
\* the one that comes first among the extracted links.
C12_FirstSeenWins ==
    \A p \in Procs :
        FindReturned(p) =>
            FirstBest(InternalHrefs(page), WheelIndexes(InternalHrefs(page)),
                      cand[p].url)

\* find returned the mirror's 2.0 wheel, listed before the 2.0.0 wheel.
C12_Witness ==
    /\ FindReturned(1)
    /\ InternalHrefs(page) = << Wheel100, Wheel20Mirror, Wheel200 >>
    /\ cand[1].url = "https://mirror.example/pkg-2.0-py3-none-any.whl"

\* The internal wheel links of the page whose file name holds a version.
VersionedWheels == { h \in InternalWheels : FileOf(h) \in Pep440Names }

\* C13 as stated: a wheel link whose file name has no parseable version is
\* passed over: on a fetched page find raises NoAcceptableFile when no
\* internal wheel link has a version, and returns a link of the greatest
\* version among those that have one otherwise.
C13_UnparseableSkipped ==
    \A p \in Procs :
        FindGotPage(p) =>
            IF VersionedWheels = {}
            THEN ret[p] = "NoAcceptableFile" /\ cand[p] = NoCandidate
            ELSE /\ ret[p] = "ok"
                 /\ \E h \in VersionedWheels :
                       /\ cand[p].url = Resolved(h)
                       /\ \A g \in VersionedWheels :
                             Rank(FileOf(g)) <= Rank(FileOf(h))

(***************************************************************************)
(* PipInstaller.install: the order of its steps                             *)
(***************************************************************************)

\* The external process of p is about to start, or has been started.
AtProcess(p) == pc[p] = "run" \/ eff[p].run >= 1

\* C17: install starts the external process only after find returned a
\* candidate and a file is at that candidate's cache path; an install that
\* ended on any exception but the process's own started no process, and one
\* that ended in find issued no GET but that of the index page and created
\* and wrote nothing.
C17_FindDownloadRun ==
    /\ \A p \in Procs :
          AtProcess(p) =>
              /\ op[p] = "install"
              /\ cand[p] # NoCandidate
              /\ cand[p].url \in { links[p][i] : i \in 1..Len(links[p]) }
              /\ cache_path[p] = << cache_dir[p], sha256(cand[p].url),
                                    cand[p].filename >>
              /\ cache_path[p] \in DOMAIN files
    /\ \A i \in Ended :
          /\ done[i].ret \notin { "ok", "CalledProcessError" }
                => done[i].eff.run = 0
          /\ done[i].op = "install" /\ done[i].url = ""
                => /\ done[i].ret # "ok"
                   /\ done[i].eff.get = 1
                   /\ done[i].eff.mkdir = 0
                   /\ done[i].eff.write = 0
                   /\ done[i].eff.run = 0

\* An install ended in download, and the next is about to start the process
\* on the file it has just written.
C17_Witness ==
    /\ pc[1] = "run"
    /\ eff[1].write = 1
    /\ \E i \in Ended :
          /\ done[i].op = "install" /\ done[i].url # ""
          /\ done[i].ret = "OSError"

(***************************************************************************)
(* PipInstaller.download: a failed GET                                      *)
(***************************************************************************)

\* The step in which the artifact GET of p comes back with an error status.
FailedGetStep(p) == pc[p] = "get" /\ IsError(eff'[p].status)

\* A download that ended on the failed GET, followed by a download of the
\* same candidate.
RetryAfterFailedGet(i) ==
    /\ i + 1 \in Ended
    /\ done[i].op = "download" /\ done[i].ret = "HTTPError"
    /\ done[i + 1].op = "download"
    /\ SameCandidate(done[i], done[i + 1])

\* C18: when the artifact GET comes back with an error status, download
\* raises HTTPError with the cache as it was: no directory is created, no
\* file is written, no file is at the cache path; and the next download of
\* the same candidate issues a GET again.
C18_FailedGetLeavesCache ==
    /\ [][\A p \in Procs :
            FailedGetStep(p) =>
               /\ pc'[p] = "idle" /\ ret'[p] = "HTTPError"
               /\ << files, dirs, mkdirs, writes >>' =
                     << files, dirs, mkdirs, writes >>
               /\ cache_path[p] \notin DOMAIN files']_vars
    /\ [](\A i \in Ended :
            RetryAfterFailedGet(i) =>
               /\ done[i].content = NoFile
               /\ done[i + 1].eff.get = 1)

\* A download got a 404, and the next download of the candidate fetched it.
C18_Witness ==
    /\ Len(done) = 2
    /\ RetryAfterFailedGet(1)
    /\ done[2].ret = "ok"
    /\ done[2].content = done[2].body

(***************************************************************************)
(* Two installers: cache roots, the append-only cache, the race             *)
(***************************************************************************)

\* The step is one of process p.
StepOf(p) == pc'[p] # pc[p]

\* Calls i and j computed the cache path of one candidate.
SameFile(i, j) ==
    /\ done[i].path # NoPath /\ done[j].path # NoPath
    /\ done[i].url = done[j].url /\ done[i].filename = done[j].filename

\* download returned the path in call i.
Fetched(i) == done[i].ret \in { "ok", "CalledProcessError" }

\* C14: the cache path is <root>/<sha256(url)>/<filename>: the same
\* candidate gets the same relative path under every root; a step of an
\* installer creates or changes no file and no directory under a root that
\* is not its own; and of two installers with different roots each issues
\* its own GET for the candidate.
C14_PathPerRoot ==
    /\ [](\A i \in Ended, j \in Ended :
            SameFile(i, j) =>
               /\ done[i].path = << done[i].root, sha256(done[i].url),
                                    done[i].filename >>
               /\ done[i].path[2] = done[j].path[2]
               /\ done[i].path[3] = done[j].path[3]
               /\ done[i].root # done[j].root /\ Fetched(i) /\ Fetched(j)
                  /\ FirstOnPath(i) /\ FirstOnPath(j)
                  => ArtifactGets(done[i]) = 1 /\ ArtifactGets(done[j]) = 1)
    /\ [][\A p \in Procs :
            StepOf(p) =>
               /\ \A f \in DOMAIN files' :
                     f[1] # cache_dir[p] =>
                        f \in DOMAIN files /\ files'[f] = files[f]
               /\ \A d \in dirs' \ dirs : d[1] = cache_dir[p]]_vars

\* Two installers with different cache roots each fetched and wrote the
\* candidate.
C14_Witness ==
    /\ Len(done) = 2
    /\ SameFile(1, 2)
    /\ done[1].root # done[2].root
    /\ done[1].ret = "ok" /\ done[2].ret = "ok"
    /\ done[1].eff.write = 1 /\ done[2].eff.write = 1
    /\ done[1].path \in DOMAIN files /\ done[2].path \in DOMAIN files

\* C15: a file that is at a cache path when a call starts is still there,
\* with the same content, after every step of that call, whichever process
\* makes the call.
C15_AppendOnly ==
    [][\A p \in Procs :
         StepOf(p) =>
            \A f \in present[p] :
                f \in DOMAIN files' /\ files'[f] = files[f]]_vars

\* An install that started with the file of its candidate in the cache,
\* cut short by the other process, ran the installer on it.
C15_Witness ==
    \E p \in Procs :
        /\ cache_path[p] \in present[p]
        /\ eff[p].run = 1
        /\ files[cache_path[p]] \notin Bodies
        /\ \E i \in Ended : done[i].by # p /\ done[i].ret = "KeyboardInterrupt"

\* p and q got the same body for the same cache path, and q met no failed
\* GET, full disk or interrupt.
RaceOn(p, q) ==
    /\ p # q
    /\ cache_path[p] # NoPath /\ cache_path[p] = cache_path[q]
    /\ resp[p] # NoBody /\ resp[q] = resp[p]
    /\ ret[q] \notin { "HTTPError", "OSError", "KeyboardInterrupt" }

\* C16 as stated: when two processes download one candidate into one cache
\* root and get the same body, neither fails, and while the external
\* installer of one of them is to read the file, the file holds that body.
C16_BenignRace ==
    \A p \in Procs, q \in Procs :
        RaceOn(p, q) =>
            /\ ret[p] # "FileExistsError" /\ ret[q] # "FileExistsError"
            /\ pc[p] = "run" => files[cache_path[p]] = resp[p]

(***************************************************************************)
(* The command line: the session of create, and create on an existing name  *)
(***************************************************************************)

\* Call i of the log is a create that got as far as its installer.
InstallerUsed(i) == done[i].op = "create" /\ done[i].ret # "ClickException"

\* Call i of the log is a create that found the environment and refused.
Rejected(i) == done[i].op = "create" /\ done[i].ret = "ClickException"

\* C11: whenever the with block of create ends, with install returned or
\* raised in find, download or the process, session.close() has been called
\* exactly once on the installer and the session is closed; and a GET is
\* only ever issued on an open session, which stays open over it.
C11_SessionReleased ==
    /\ [](\A i \in 1..Len(done) : InstallerUsed(i) => done[i].closes = 1)
    /\ [](\A p \in Procs :
            op[p] = "create" /\ pc[p] = "idle" /\ ret[p] # "ClickException"
                => session[p] = "closed")
    /\ [][\A p \in Procs :
            StepOf(p) /\ gets' # gets
                => session[p] = "open" /\ session'[p] = "open"]_vars

\* A create whose install raised in the external process, after its GETs,
\* has ended with the session closed once.
C11_Witness ==
    \E i \in 1..Len(done) :
        /\ InstallerUsed(i)
        /\ done[i].ret = "CalledProcessError"
        /\ done[i].eff.get >= 1
        /\ done[i].closes = 1
        /\ session[1] = "closed"

\* C19: create on a name whose environment exists raises ClickException and
\* touches nothing (no builder, no installer, no GET, no process); a create
\* that got past the check leaves the environment directory behind, also
\* when its install failed; and every create after it is rejected unless a
\* remove came in between.
C19_CreateChecksFirst ==
    /\ [][\A p \in Procs :
            StepOf(p) /\ pc[p] = "create" /\ environment[p] \in envDirs
                => /\ ret'[p] = "ClickException" /\ pc'[p] = "idle"
                   /\ UNCHANGED << world, session, closes >>]_vars
    /\ [](\A i \in 1..Len(done) :
            /\ Rejected(i) => done[i].eff = NoEffect /\ done[i].env
            /\ InstallerUsed(i) => done[i].env)
    /\ [](\A i, j \in 1..Len(done) :
            /\ i < j
            /\ InstallerUsed(i)
            /\ done[j].op = "create"
            /\ \A k \in (i + 1)..(j - 1) : done[k].op # "remove"
            => Rejected(j))

\* A create whose install failed, then a create of the same name rejected.
C19_Witness ==
    /\ Len(done) >= 2
    /\ InstallerUsed(1) /\ done[1].ret # "ok"
    /\ Rejected(2)
    /\ runs = << >>

====
